---- MODULE Spec2Model ----
(***************************************************************************)
(* Model of src/ingestion.py: the Lucca ingestion script.                  *)
(*                                                                         *)
(*   retrieve_lucca_data   one authenticated GET, returns data.items       *)
(*   save_to_csv           pandas DataFrame(data).to_csv(name, index=False)*)
(*   create_employees_list two users fetches, concatenation, flattening    *)
(*   create_departments_list  one departments fetch                        *)
(*   main                  the fixed sequence of the four steps            *)
(*                                                                         *)
(* Python values are tagged records, so that a value of any JSON type can  *)
(* sit in any place a response may put it.  A dict is a sequence of        *)
(* <<key, value>> pairs with distinct keys: Python dicts keep insertion    *)
(* order, and the column order of the CSV depends on it.                   *)
(***************************************************************************)
EXTENDS Integers, Sequences, FiniteSets, TLC

(***************************************************************************)
(* Bounds of the model.                                                    *)
(***************************************************************************)
\* longest data.items list a stub response carries
MaxItems == 2
\* longest record list handed to save_to_csv on its own
MaxRecs == 2

(***************************************************************************)
(* Python / JSON values.                                                   *)
(***************************************************************************)
PyStr(s) == [t |-> "str", s |-> s]
PyInt(n) == [t |-> "int", n |-> n]
PyNone == [t |-> "null"]
PyDict(m) == [t |-> "map", m |-> m]
PyList(l) == [t |-> "list", l |-> l]

\* the keys of a dict, in insertion order
Keys(m) == [i \in 1..Len(m) |-> m[i][1]]

KeySet(m) == {m[i][1] : i \in 1..Len(m)}

HasKey(m, k) == k \in KeySet(m)

\* m[k] for a key that is present
Lookup(m, k) == m[CHOOSE i \in 1..Len(m) : m[i][1] = k][2]

\* m[k] = v: an existing key keeps its position, a new key goes last
SetItem(m, k, v) ==
    IF HasKey(m, k)
    THEN [i \in 1..Len(m) |-> IF m[i][1] = k THEN <<k, v>> ELSE m[i]]
    ELSE Append(m, <<k, v>>)

\* obj[key] with a string key, as Python evaluates it: a dict looks the key
\* up (KeyError when absent); a str, list, int or None raises TypeError.
Subscript(obj, key) ==
    IF obj.t = "map"
    THEN IF HasKey(obj.m, key)
         THEN [raised |-> "none", val |-> Lookup(obj.m, key)]
         ELSE [raised |-> "KeyError", val |-> PyNone]
    ELSE [raised |-> "TypeError", val |-> PyNone]

(***************************************************************************)
(* Exceptions.  requests.exceptions.RequestException is the base class of  *)
(* what requests.get raises (ConnectionError, Timeout) and, since requests *)
(* 2.27, of the JSONDecodeError that response.json() raises on a body that *)
(* is not JSON.  KeyError, TypeError and OSError are outside the family.   *)
(***************************************************************************)
RequestExceptionFamily == {"ConnectionError", "Timeout", "JSONDecodeError"}

\* variant: the clause written as `except requests.exceptions.ConnectionError`
OnlyConnectionError(exc) == exc = "ConnectionError"

\* variant: the clause written as `except Exception`
AnyException(exc) == exc # "none"

\* the `except requests.exceptions.RequestException` clause
IsRequestException(exc) == exc \in RequestExceptionFamily

(***************************************************************************)
(* The process environment and the transport (the stubbed outside world).  *)
(***************************************************************************)
\* os.getenv("URL_API_LUCCA"): the base URL, or None when it is not set
EnvUrls == {PyStr("https://lucca.example"), PyNone}

user_suffix == "/api/v3/users"
departments_suffix == "/api/v3/departments"

employees_fields ==
    PyList(<<PyStr("firstName"), PyStr("lastName"), PyStr("gender"),
             PyStr("birthDate"), PyStr("jobTitle"), PyStr("department"),
             PyStr("dtContractStart"), PyStr("dtContractEnd")>>)

departments_fields ==
    PyList(<<PyStr("name"), PyStr("currentUsersCount"), PyStr("hierarchy")>>)

Eng == PyDict(<< <<"name", PyStr("Eng")>> >>)
Ops == PyDict(<< <<"id", PyInt(7)>>, <<"name", PyStr("Ops")>> >>)

\* records the users endpoint may put in data.items: two well-shaped ones,
\* and one of each way a record can depart from the expected shape
GoodUserRecords ==
    { PyDict(<< <<"firstName", PyStr("Ann")>>, <<"department", Eng>> >>),
      PyDict(<< <<"department", Ops>>, <<"firstName", PyStr("Bob")>>,
                <<"dtContractEnd", PyNone>> >>) }

\* no department key; department null; department a string; department a
\* dict without name
MisshapenUserRecords ==
    { PyDict(<< <<"firstName", PyStr("Cy")>> >>),
      PyDict(<< <<"firstName", PyStr("Di")>>, <<"department", PyNone>> >>),
      PyDict(<< <<"firstName", PyStr("Ed")>>, <<"department", PyStr("Eng")>> >>),
      PyDict(<< <<"firstName", PyStr("Flo")>>,
                <<"department", PyDict(<< <<"id", PyInt(7)>> >>)>> >>) }

\* department is a dict with a name, but the name is itself a dict
NestedNameUserRecords ==
    { PyDict(<< <<"firstName", PyStr("Gus")>>,
                <<"department", PyDict(<< <<"name", Eng>> >>)>> >>) }

UserRecords == GoodUserRecords \cup MisshapenUserRecords \cup NestedNameUserRecords

DepartmentRecords ==
    { PyDict(<< <<"name", PyStr("Eng")>>, <<"currentUsersCount", PyInt(3)>> >>),
      PyDict(<< <<"name", PyStr("Ops")>>, <<"hierarchy", PyList(<<PyInt(1)>>)>> >>) }

SeqsUpTo(S, n) == UNION {[1..k -> S] : k \in 0..n}

Envelope(items) ==
    PyDict(<< <<"data", PyDict(<< <<"items", PyList(items)>> >>)>> >>)

\* JSON bodies that decode but lack the data.items envelope
NonEnvelopeBodies ==
    { PyDict(<< <<"error", PyStr("unauthorized")>> >>),
      PyDict(<< <<"data", PyDict(<< <<"count", PyInt(0)>> >>)>> >>),
      PyList(<< >>) }

RecordsOf(url_suffix) ==
    IF url_suffix = user_suffix THEN UserRecords ELSE DepartmentRecords

\* what the transport does with one GET: requests.get raises, or a response
\* arrives whose body is not JSON, or is JSON of some shape
Transports(url_suffix) ==
    {[kind |-> "raise", exc |-> "ConnectionError"]}
    \cup {[kind |-> "response", json |-> FALSE]}
    \cup {[kind |-> "response", json |-> TRUE, body |-> b] : b \in NonEnvelopeBodies}
    \cup {[kind |-> "response", json |-> TRUE, body |-> Envelope(items)] :
             items \in SeqsUpTo(RecordsOf(url_suffix), MaxItems)}

(***************************************************************************)
(* retrieve_lucca_data(url_suffix, params), run against transport tr.      *)
(* The result says what the call did: the exception that left it ("none"   *)
(* when it returned), the value returned, the lines printed and the GET    *)
(* requests issued.                                                        *)
(***************************************************************************)
Outcome(raised, ret, printed, gets) ==
    [raised |-> raised, ret |-> ret, printed |-> printed, gets |-> gets]

\* the try body, lines 31-35: the exception it ends with and the data
TryBody(url, url_suffix, params, tr) ==
    IF url.t # "str"
    THEN \* None + str, before requests.get is entered
         [raised |-> "TypeError", data |-> <<>>, gets |-> 0]
    ELSE IF tr.kind = "raise"
    THEN [raised |-> tr.exc, data |-> <<>>, gets |-> 1]
    ELSE IF ~tr.json
    THEN [raised |-> "JSONDecodeError", data |-> <<>>, gets |-> 1]
    ELSE LET d == Subscript(tr.body, "data")
             i == Subscript(d.val, "items")
         IN  IF d.raised # "none"
             THEN [raised |-> d.raised, data |-> <<>>, gets |-> 1]
             ELSE IF i.raised # "none"
             THEN [raised |-> i.raised, data |-> <<>>, gets |-> 1]
             ELSE [raised |-> "none", data |-> i.val.l, gets |-> 1]

\* variant: a failed request is sent a second time before giving up
retrieve_with_retry(url, url_suffix, params, tr) ==
    LET b == TryBody(url, url_suffix, params, tr)
    IN  IF b.raised = "none"
        THEN Outcome("none", b.data, 0, b.gets)
        ELSE IF IsRequestException(b.raised)
        THEN Outcome("none", <<>>, 1, 2 * b.gets)
        ELSE Outcome(b.raised, <<>>, 0, b.gets)

\* variant: the except clause prints and re-raises
retrieve_reraises(url, url_suffix, params, tr) ==
    LET b == TryBody(url, url_suffix, params, tr)
    IN  IF b.raised = "none"
        THEN Outcome("none", b.data, 0, b.gets)
        ELSE IF IsRequestException(b.raised)
        THEN Outcome(b.raised, <<>>, 1, b.gets)
        ELSE Outcome(b.raised, <<>>, 0, b.gets)

retrieve_lucca_data(url, url_suffix, params, tr) ==
    LET b == TryBody(url, url_suffix, params, tr)
    IN  IF b.raised = "none"
        THEN Outcome("none", b.data, 0, b.gets)
        ELSE IF IsRequestException(b.raised)
        THEN \* print(f"An error occurred: {e}"); return []
             Outcome("none", <<>>, 1, b.gets)
        ELSE Outcome(b.raised, <<>>, 0, b.gets)

\* one call of retrieve_lucca_data: its arguments, the transport it met and
\* what it did
Call(url, url_suffix, params, tr) ==
    [url_suffix |-> url_suffix, params |-> params, tr |-> tr,
     out |-> retrieve_lucca_data(url, url_suffix, params, tr)]

(***************************************************************************)
(* save_to_csv(data, name): pd.DataFrame(data).to_csv(name, index=False).  *)
(* A written file is the table of its cell texts.                          *)
(***************************************************************************)
RECURSIVE AppendNew(_, _)
\* cols followed by the keys of ks that cols does not hold yet, in ks order
AppendNew(cols, ks) ==
    IF ks = <<>> THEN cols
    ELSE AppendNew(IF \E i \in 1..Len(cols) : cols[i] = Head(ks)
                   THEN cols ELSE Append(cols, Head(ks)),
                   Tail(ks))

RECURSIVE ColumnsFrom(_, _)
ColumnsFrom(data, cols) ==
    IF data = <<>> THEN cols
    ELSE ColumnsFrom(Tail(data), AppendNew(cols, Keys(Head(data).m)))

\* DataFrame(list of dicts).columns: every key, in order of first appearance
Columns(data) == ColumnsFrom(data, <<>>)

\* a cell pandas holds as missing: the record lacks the column, or holds None
IsNA(rec, c) == ~HasKey(rec.m, c) \/ Lookup(rec.m, c).t = "null"

\* dtype inference: integers next to a missing value become float64
IsFloatColumn(data, c) ==
    /\ \E i \in 1..Len(data) : IsNA(data[i], c)
    /\ \E i \in 1..Len(data) : ~IsNA(data[i], c)
    /\ \A i \in 1..Len(data) : IsNA(data[i], c) \/ Lookup(data[i].m, c).t = "int"

RECURSIVE Repr(_)
RECURSIVE ReprItems(_)
RECURSIVE ReprPairs(_)
\* repr() of a value, as str() of a dict or list shows its parts
Repr(v) ==
    CASE v.t = "str" -> "'" \o v.s \o "'"
      [] v.t = "int" -> ToString(v.n)
      [] v.t = "null" -> "None"
      [] v.t = "list" -> "[" \o ReprItems(v.l) \o "]"
      [] v.t = "map" -> "{" \o ReprPairs(v.m) \o "}"

ReprItems(l) ==
    IF l = <<>> THEN ""
    ELSE IF Len(l) = 1 THEN Repr(l[1])
    ELSE Repr(l[1]) \o ", " \o ReprItems(Tail(l))

ReprPairs(m) ==
    IF m = <<>> THEN ""
    ELSE IF Len(m) = 1 THEN "'" \o m[1][1] \o "': " \o Repr(m[1][2])
    ELSE "'" \o m[1][1] \o "': " \o Repr(m[1][2]) \o ", " \o ReprPairs(Tail(m))

\* str() of a value: a str is itself, anything else is its repr
Stringify(v) == IF v.t = "str" THEN v.s ELSE Repr(v)

\* the text to_csv writes for column c of record rec (na_rep is "")
CellText(data, rec, c) ==
    IF IsNA(rec, c) THEN ""
    ELSE IF IsFloatColumn(data, c) THEN ToString(Lookup(rec.m, c).n) \o ".0"
    ELSE Stringify(Lookup(rec.m, c))

NoFile == [written |-> FALSE, header |-> <<>>, rows |-> <<>>]

\* variant: to_csv called without index=False
save_to_csv_with_index(data) ==
    LET cols == Columns(data)
    IN  [written |-> TRUE,
         header |-> <<"">> \o cols,
         rows |-> [i \in 1..Len(data) |->
                     <<ToString(i - 1)>> \o
                     [j \in 1..Len(cols) |-> CellText(data, data[i], cols[j])]]]

\* the table save_to_csv writes: header row, then one row per record
save_to_csv(data) ==
    LET cols == Columns(data)
    IN  [written |-> TRUE,
         header |-> cols,
         rows |-> [i \in 1..Len(data) |->
                     [j \in 1..Len(cols) |-> CellText(data, data[i], cols[j])]]]

\* what opening and writing the destination may do
FileSystemOutcomes == {"ok", "PermissionError"}

(***************************************************************************)
(* create_employees_list, lines 85-86: the flattening loop from index i.   *)
(* The dicts are changed in place, so a loop that raises leaves the        *)
(* records before the failing one already flattened.                       *)
(***************************************************************************)
RECURSIVE FlattenLoopSkipping(_, _)
\* variant: a record whose lookup fails is left as it is and the loop goes on
FlattenLoopSkipping(list, i) ==
    IF i > Len(list) THEN [raised |-> "none", list |-> list]
    ELSE LET employee == list[i]
             d == Subscript(employee, "department")
             n == Subscript(d.val, "name")
         IN  IF d.raised # "none" \/ n.raised # "none"
             THEN FlattenLoopSkipping(list, i + 1)
             ELSE FlattenLoopSkipping(
                    [list EXCEPT ![i] =
                        PyDict(SetItem(employee.m, "department", n.val))],
                    i + 1)

RECURSIVE FlattenLoop(_, _)
FlattenLoop(list, i) ==
    IF i > Len(list) THEN [raised |-> "none", list |-> list]
    ELSE LET employee == list[i]
             d == Subscript(employee, "department")
             n == Subscript(d.val, "name")
         IN  IF d.raised # "none" THEN [raised |-> d.raised, list |-> list]
             ELSE IF n.raised # "none" THEN [raised |-> n.raised, list |-> list]
             ELSE FlattenLoop(
                    [list EXCEPT ![i] =
                        PyDict(SetItem(employee.m, "department", n.val))],
                    i + 1)

\* variant: the loop runs over the current employees only
CombineCurrentOnly(current, former) ==
    LET f == FlattenLoop(current, 1)
    IN  [raised |-> f.raised, list |-> f.list \o former]

\* variant: the two lists concatenated the other way round
CombineFormerFirst(current, former) == FlattenLoop(former \o current, 1)

\* line 84 and the loop: current + former, then flattened
Combine(current, former) == FlattenLoop(current \o former, 1)

users_params(fields) == << <<"fields", fields>> >>

former_params(fields) ==
    << <<"dtContractEnd", PyStr("notequal,null")>>, <<"fields", fields>> >>

departments_params(fields) == << <<"fields", fields>> >>

\* variant: the parameters copied from the former-employees request
create_departments_list_filtered(url, fields, tr) ==
    Call(url, departments_suffix, former_params(fields), tr)

\* create_departments_list(fields), run against transport tr: its one call
create_departments_list(url, fields, tr) ==
    Call(url, departments_suffix, departments_params(fields), tr)

(***************************************************************************)
(* State.                                                                  *)
(***************************************************************************)
VARIABLES
    pc,                      \* where main stands
    url,                     \* URL_API_LUCCA in the environment
    current_employees_list,  \* create_employees_list's locals
    former_employees_list,
    employees_list,          \* main's locals
    departments_list,
    calls,                   \* every retrieve_lucca_data call, with its outcome
    log,                     \* GET requests issued and files written, in order
    stdout,                  \* number of diagnostic lines printed
    files,                   \* the two destination files
    exc,                     \* the uncaught exception that ended the run
    raised_in,               \* ... and the function whose frame raised it
    csv_data,                \* save_to_csv on its own: its argument
    csv_file                 \* ... and the file it wrote

vars == <<pc, url, current_employees_list, former_employees_list,
          employees_list, departments_list, calls, log, stdout, files, exc,
          raised_in, csv_data, csv_file>>

FileNames == {"employees.csv", "departments.csv"}

Get(url_suffix, params) == [ev |-> "GET", url_suffix |-> url_suffix, params |-> params]
Write(name) == [ev |-> "WRITE", name |-> name]

Init ==
    /\ pc = "fetch_current"
    /\ url \in EnvUrls
    /\ current_employees_list = <<>>
    /\ former_employees_list = <<>>
    /\ employees_list = <<>>
    /\ departments_list = <<>>
    /\ calls = <<>>
    /\ log = <<>>
    /\ stdout = 0
    /\ files = [n \in FileNames |-> NoFile]
    /\ exc = "none"
    /\ raised_in = "none"
    /\ csv_data = <<>>
    /\ csv_file = NoFile

\* one retrieve_lucca_data call made by a builder: what it leaves behind
Called(c) ==
    /\ calls' = Append(calls, c)
    /\ log' = log \o [i \in 1..c.out.gets |-> Get(c.url_suffix, c.params)]
    /\ stdout' = stdout + c.out.printed
    /\ exc' = c.out.raised
    /\ raised_in' = IF c.out.raised = "none" THEN "none"
                    ELSE "retrieve_lucca_data"

\* create_employees_list, lines 75-76
FetchCurrent ==
    /\ pc = "fetch_current"
    /\ \E tr \in Transports(user_suffix) :
         LET c == Call(url, user_suffix, users_params(employees_fields), tr)
         IN  /\ Called(c)
             /\ IF c.out.raised = "none"
                THEN /\ current_employees_list' = c.out.ret
                     /\ pc' = "fetch_former"
                ELSE /\ pc' = "aborted"
                     /\ UNCHANGED current_employees_list
    /\ UNCHANGED <<url, former_employees_list, employees_list,
                   departments_list, files, csv_data, csv_file>>

\* create_employees_list, lines 79-81
FetchFormer ==
    /\ pc = "fetch_former"
    /\ \E tr \in Transports(user_suffix) :
         LET c == Call(url, user_suffix, former_params(employees_fields), tr)
         IN  /\ Called(c)
             /\ IF c.out.raised = "none"
                THEN /\ former_employees_list' = c.out.ret
                     /\ pc' = "flatten"
                ELSE /\ pc' = "aborted"
                     /\ UNCHANGED former_employees_list
    /\ UNCHANGED <<url, current_employees_list, employees_list,
                   departments_list, files, csv_data, csv_file>>

\* variant: the builder catches the lookup error and returns what it has
FlattenSwallows ==
    /\ pc = "flatten"
    /\ LET f == Combine(current_employees_list, former_employees_list)
           na == Len(current_employees_list)
       IN  /\ current_employees_list' = SubSeq(f.list, 1, na)
           /\ former_employees_list' = SubSeq(f.list, na + 1, Len(f.list))
           /\ employees_list' = f.list
    /\ pc' = "save_employees"
    /\ UNCHANGED <<url, departments_list, calls, log, stdout, files, exc,
                   raised_in, csv_data, csv_file>>

\* create_employees_list, lines 84-88, and the assignment of line 113
Flatten ==
    /\ pc = "flatten"
    /\ LET f == Combine(current_employees_list, former_employees_list)
           na == Len(current_employees_list)
       IN  /\ current_employees_list' = SubSeq(f.list, 1, na)
           /\ former_employees_list' = SubSeq(f.list, na + 1, Len(f.list))
           /\ exc' = f.raised
           /\ raised_in' = IF f.raised = "none" THEN "none"
                           ELSE "create_employees_list"
           /\ IF f.raised = "none"
              THEN /\ employees_list' = f.list
                   /\ pc' = "save_employees"
              ELSE /\ pc' = "aborted"
                   /\ UNCHANGED employees_list
    /\ UNCHANGED <<url, departments_list, calls, log, stdout, files,
                   csv_data, csv_file>>

\* main, line 116
SaveEmployees ==
    /\ pc = "save_employees"
    /\ \E fs \in FileSystemOutcomes :
         IF fs = "ok"
         THEN /\ files' = [files EXCEPT !["employees.csv"] = save_to_csv(employees_list)]
              /\ log' = Append(log, Write("employees.csv"))
              /\ pc' = "fetch_departments"
              /\ UNCHANGED <<exc, raised_in>>
         ELSE /\ pc' = "aborted"
              /\ exc' = fs
              /\ raised_in' = "save_to_csv"
              /\ UNCHANGED <<files, log>>
    /\ UNCHANGED <<url, current_employees_list, former_employees_list,
                   employees_list, departments_list, calls, stdout,
                   csv_data, csv_file>>

\* create_departments_list, called at line 120
FetchDepartments ==
    /\ pc = "fetch_departments"
    /\ \E tr \in Transports(departments_suffix) :
         LET c == create_departments_list(url, departments_fields, tr)
         IN  /\ Called(c)
             /\ IF c.out.raised = "none"
                THEN /\ departments_list' = c.out.ret
                     /\ pc' = "save_departments"
                ELSE /\ pc' = "aborted"
                     /\ UNCHANGED departments_list
    /\ UNCHANGED <<url, current_employees_list, former_employees_list,
                   employees_list, files, csv_data, csv_file>>

\* main, line 123
SaveDepartments ==
    /\ pc = "save_departments"
    /\ \E fs \in FileSystemOutcomes :
         IF fs = "ok"
         THEN /\ files' = [files EXCEPT !["departments.csv"] = save_to_csv(departments_list)]
              /\ log' = Append(log, Write("departments.csv"))
              /\ pc' = "done"
              /\ UNCHANGED <<exc, raised_in>>
         ELSE /\ pc' = "aborted"
              /\ exc' = fs
              /\ raised_in' = "save_to_csv"
              /\ UNCHANGED <<files, log>>
    /\ UNCHANGED <<url, current_employees_list, former_employees_list,
                   employees_list, departments_list, calls, stdout,
                   csv_data, csv_file>>

Next ==
    \/ FetchCurrent
    \/ FetchFormer
    \/ Flatten
    \/ SaveEmployees
    \/ FetchDepartments
    \/ SaveDepartments

Spec == Init /\ [][Next]_vars

(***************************************************************************)
(* save_to_csv called on its own, on any short list of records over the    *)
(* keys a and b.                                                           *)
(***************************************************************************)
CsvValues == {PyInt(1), PyInt(2), PyInt(5), PyStr("x"), PyNone}

CsvRecords ==
    {PyDict(<< >>)}
    \cup {PyDict(<< <<k, v>> >>) : k \in {"a", "b"}, v \in CsvValues}
    \cup {PyDict(<< <<"a", v>>, <<"b", w>> >>) : v \in CsvValues, w \in CsvValues}
    \cup {PyDict(<< <<"b", v>>, <<"a", w>> >>) : v \in CsvValues, w \in CsvValues}

InitCsv ==
    /\ pc = "save_to_csv"
    /\ url = PyNone
    /\ current_employees_list = <<>>
    /\ former_employees_list = <<>>
    /\ employees_list = <<>>
    /\ departments_list = <<>>
    /\ calls = <<>>
    /\ log = <<>>
    /\ stdout = 0
    /\ files = [n \in FileNames |-> NoFile]
    /\ exc = "none"
    /\ raised_in = "none"
    /\ csv_data \in SeqsUpTo(CsvRecords, MaxRecs)
    /\ csv_file = NoFile

\* save_to_csv(csv_data, "t.csv")
SaveStandalone ==
    /\ pc = "save_to_csv"
    /\ csv_file' = save_to_csv(csv_data)
    /\ pc' = "done"
    /\ UNCHANGED <<url, current_employees_list, former_employees_list,
                   employees_list, departments_list, calls, log, stdout,
                   files, exc, raised_in, csv_data>>

NextCsv == SaveStandalone

SpecCsv == InitCsv /\ [][NextCsv]_vars

(***************************************************************************)
(* Properties.                                                             *)
(***************************************************************************)
Calls == 1..Len(calls)

\* the transport was entered by call c and raised: requests.get raised, or
\* the body that arrived is not JSON and response.json() raised
TransportRaised(c) ==
    /\ url.t = "str"
    /\ \/ c.tr.kind = "raise"
       \/ c.tr.kind = "response" /\ ~c.tr.json

\* the body that arrived decodes as JSON
Decoded(c) == url.t = "str" /\ c.tr.kind = "response" /\ c.tr.json

\* a JSON body is an object whose data is an object holding items
IsEnvelope(body) ==
    /\ body.t = "map"
    /\ \E i \in 1..Len(body.m) :
         /\ body.m[i][1] = "data"
         /\ body.m[i][2].t = "map"
         /\ \E j \in 1..Len(body.m[i][2].m) : body.m[i][2].m[j][1] = "items"

ItemsOf(body) ==
    LET data == body.m[CHOOSE i \in 1..Len(body.m) : body.m[i][1] = "data"][2]
    IN  data.m[CHOOSE j \in 1..Len(data.m) : data.m[j][1] = "items"][2].l

\* call i raised to its caller: nothing ran after it
Propagated(i) ==
    /\ i = Len(calls)
    /\ pc = "aborted"
    /\ exc = calls[i].out.raised
    /\ raised_in = "retrieve_lucca_data"

C10_OnlyRequestExceptionsDegrade ==
    \A i \in Calls :
       LET c == calls[i]
       IN  /\ url.t # "str" =>
                /\ c.out.raised = "TypeError"
                /\ c.out.gets = 0
           /\ (Decoded(c) /\ ~IsEnvelope(c.tr.body)) =>
                c.out.raised \in {"KeyError", "TypeError"}
           /\ (Decoded(c) /\ IsEnvelope(c.tr.body)) =>
                /\ c.out.raised = "none"
                /\ c.out.ret = ItemsOf(c.tr.body)
                /\ c.out.printed = 0
           /\ c.out.raised # "none" =>
                /\ Propagated(i)
                /\ c.out.printed = 0
                /\ ~files["departments.csv"].written
                /\ i <= 2 => ~files["employees.csv"].written
           /\ (c.out.raised = "none" /\ c.out.printed = 1) => TransportRaised(c)

\* the departments endpoint answers with an error body after the employees
\* were fetched and written: the run ends there with a KeyError
C10_Witness ==
    /\ pc = "aborted" /\ exc = "KeyError" /\ raised_in = "retrieve_lucca_data"
    /\ Len(calls) = 3
    /\ Len(calls[1].out.ret) = 2
    /\ ~IsEnvelope(calls[3].tr.body)
    /\ files["employees.csv"].written

IsPrefix(a, b) == Len(a) <= Len(b) /\ a = SubSeq(b, 1, Len(a))

ExpectedLog ==
    << [ev |-> "GET", url_suffix |-> "/api/v3/users",
        params |-> << <<"fields", employees_fields>> >>],
       [ev |-> "GET", url_suffix |-> "/api/v3/users",
        params |-> << <<"dtContractEnd", PyStr("notequal,null")>>,
                      <<"fields", employees_fields>> >>],
       [ev |-> "WRITE", name |-> "employees.csv"],
       [ev |-> "GET", url_suffix |-> "/api/v3/departments",
        params |-> << <<"fields", departments_fields>> >>],
       [ev |-> "WRITE", name |-> "departments.csv"] >>

\* C6: at every moment the GETs issued and files written so far are an
\* initial part of the sequence GET users, GET users with the contract-end
\* filter, write employees.csv, GET departments, write departments.csv; a
\* complete run has performed the whole sequence, with three fetch calls of
\* one GET each; a fetch call that reaches the transport issues one GET,
\* whether the request succeeds or fails.
C6_OrchestratorOrder ==
    /\ IsPrefix(log, ExpectedLog)
    /\ pc = "done" =>
         /\ log = ExpectedLog
         /\ Len(calls) = 3
         /\ \A i \in Calls : calls[i].out.gets = 1
    /\ \A i \in Calls : url.t = "str" => calls[i].out.gets = 1

\* a complete run whose first fetch failed and whose other two returned items
C6_Witness ==
    /\ pc = "done"
    /\ calls[1].tr.kind = "raise"
    /\ Len(calls[2].out.ret) = 2
    /\ Len(calls[3].out.ret) = 1

\* what the two users fetches returned, before any flattening
FetchedCurrent == calls[1].out.ret
FetchedFormer == calls[2].out.ret
Fetched == FetchedCurrent \o FetchedFormer

\* both users fetches returned and the flattening loop has run
FlattenRan == Len(calls) >= 2 /\ calls[2].out.raised = "none" /\ pc # "flatten"

\* create_employees_list returned a list to main
EmployeesReturned ==
    FlattenRan /\ ~(pc = "aborted" /\ raised_in = "create_employees_list")

HasDepartment(rec) == \E k \in 1..Len(rec.m) : rec.m[k][1] = "department"

DepartmentOf(rec) ==
    rec.m[CHOOSE k \in 1..Len(rec.m) : rec.m[k][1] = "department"][2]

HasName(d) == d.t = "map" /\ \E k \in 1..Len(d.m) : d.m[k][1] = "name"

NameOf(d) == d.m[CHOOSE k \in 1..Len(d.m) : d.m[k][1] = "name"][2]

\* the record has no department, or one that is not a dict holding name
Misshapen(rec) == ~HasDepartment(rec) \/ ~HasName(DepartmentOf(rec))

AnyMisshapen == \E i \in 1..Len(Fetched) : Misshapen(Fetched[i])

\* C2 as stated: every record build_employees returns carries department as
\* a string, never as a mapping.
C2_DepartmentIsString ==
    EmployeesReturned =>
       \A i \in 1..Len(employees_list) :
          DepartmentOf(employees_list[i]).t = "str"

\* C2, amended: every record build_employees returns, from either fetch,
\* carries as department the value its original department object held under
\* name, never that object itself; it is a string whenever that name was a
\* string, and the department cell of its row in employees.csv is the text of
\* that value.
C2_DepartmentIsName ==
    EmployeesReturned =>
       /\ Len(employees_list) = Len(Fetched)
       /\ \A i \in 1..Len(employees_list) :
            LET d == DepartmentOf(Fetched[i])
                out == DepartmentOf(employees_list[i])
            IN  /\ HasDepartment(Fetched[i]) /\ HasName(d)
                /\ HasDepartment(employees_list[i])
                /\ out = NameOf(d)
                /\ out # d
                /\ NameOf(d).t = "str" => out.t = "str"
                /\ files["employees.csv"].written =>
                     \E j \in 1..Len(files["employees.csv"].header) :
                        /\ files["employees.csv"].header[j] = "department"
                        /\ files["employees.csv"].rows[i][j] = Stringify(NameOf(d))

\* records of both fetches were flattened and written, one of them with a
\* string name and one with a name that is itself a mapping
C2_Witness ==
    /\ EmployeesReturned
    /\ files["employees.csv"].written
    /\ Len(FetchedCurrent) = 1 /\ Len(FetchedFormer) = 2
    /\ DepartmentOf(employees_list[1]).t = "str"
    /\ DepartmentOf(employees_list[2]).t = "str"
    /\ DepartmentOf(employees_list[3]).t = "map"

\* out is the record orig with nothing but the value of department changed
SameButDepartment(out, orig) ==
    /\ Len(out.m) = Len(orig.m)
    /\ \A k \in 1..Len(orig.m) :
         /\ out.m[k][1] = orig.m[k][1]
         /\ orig.m[k][1] # "department" => out.m[k][2] = orig.m[k][2]

\* C3: the list build_employees returns has one record per fetched record:
\* first those of the first fetch in their order, then those of the second
\* fetch in theirs, each with its keys and other values untouched; nothing is
\* dropped, reordered or deduplicated.
C3_ConcatenationOrder ==
    EmployeesReturned =>
       /\ Len(employees_list) = Len(FetchedCurrent) + Len(FetchedFormer)
       /\ \A i \in 1..Len(FetchedCurrent) :
            SameButDepartment(employees_list[i], FetchedCurrent[i])
       /\ \A j \in 1..Len(FetchedFormer) :
            SameButDepartment(employees_list[Len(FetchedCurrent) + j],
                              FetchedFormer[j])

\* the second fetch returned a person the first had returned too, and the
\* person is in the output twice
C3_Witness ==
    /\ EmployeesReturned
    /\ Len(FetchedCurrent) = 2 /\ Len(FetchedFormer) = 1
    /\ FetchedCurrent[1] # FetchedCurrent[2]
    /\ FetchedFormer[1] = FetchedCurrent[1]
    /\ employees_list[3] = employees_list[1]
    /\ employees_list[2] # employees_list[1]

\* C5: if a record of either users fetch has no department, or a department
\* that is not a mapping holding name, build_employees raises a KeyError or
\* TypeError out of its loop and main receives no list.
C5_FatalShape ==
    (FlattenRan /\ AnyMisshapen) =>
       /\ pc = "aborted"
       /\ raised_in = "create_employees_list"
       /\ exc \in {"KeyError", "TypeError"}
       /\ employees_list = <<>>

\* the second record of the second fetch has no department key, every record
\* before it is well shaped, and the builder raised KeyError
C5_Witness ==
    /\ FlattenRan
    /\ Len(FetchedCurrent) = 1 /\ Len(FetchedFormer) = 2
    /\ ~Misshapen(Fetched[1]) /\ ~Misshapen(Fetched[2])
    /\ ~HasDepartment(Fetched[3])
    /\ pc = "aborted" /\ exc = "KeyError"

\* C9: once flattening has failed on a record, the run has ended with an
\* unhandled error and stays as the two users GETs left it: no file is
\* written and the departments endpoint is never requested.
C9_AbortBeforeLaterSteps ==
    (FlattenRan /\ AnyMisshapen) =>
       /\ pc = "aborted" /\ exc # "none"
       /\ log = SubSeq(ExpectedLog, 1, 2)
       /\ Len(calls) = 2
       /\ \A n \in FileNames : ~files[n].written

\* the first fetch returned a record whose department is null, the second
\* fetch was issued all the same, and the run ended with a TypeError
C9_Witness ==
    /\ FlattenRan
    /\ Len(FetchedCurrent) = 1 /\ Len(FetchedFormer) = 1
    /\ HasDepartment(Fetched[1]) /\ DepartmentOf(Fetched[1]).t = "null"
    /\ ~Misshapen(Fetched[2])
    /\ pc = "aborted" /\ exc = "TypeError"
    /\ Len(log) = 2

\* C4: build_departments makes one fetch call, a GET of the departments
\* endpoint with fields alone as parameters, and what it returns is the list
\* that fetch returned: for a response with the envelope, its items list,
\* record for record.
C4_DepartmentsUnmodified ==
    (Len(calls) >= 3 /\ calls[3].out.raised = "none") =>
       /\ Len(calls) = 3
       /\ calls[3].url_suffix = "/api/v3/departments"
       /\ calls[3].params = << <<"fields", departments_fields>> >>
       /\ Cardinality({i \in 1..Len(log) : log[i] = ExpectedLog[4]}) = 1
       /\ departments_list = calls[3].out.ret
       /\ (Decoded(calls[3]) /\ IsEnvelope(calls[3].tr.body)) =>
            departments_list = ItemsOf(calls[3].tr.body)

\* the departments endpoint returned two different records
C4_Witness ==
    /\ pc = "save_departments"
    /\ Len(departments_list) = 2
    /\ departments_list[1] # departments_list[2]
    /\ departments_list = ItemsOf(calls[3].tr.body)

\* the fetch ended in one of: items returned, an empty items list, or a
\* failed request
ListedOutcome(c) ==
    TransportRaised(c) \/ (Decoded(c) /\ IsEnvelope(c.tr.body))

AllListed == \A i \in Calls : ListedOutcome(calls[i])

\* no record a users fetch returned is misshapen
ShapesOk ==
    \A i \in Calls : \A k \in 1..Len(calls[i].out.ret) :
       i <= 2 => ~Misshapen(calls[i].out.ret[k])

BothWritten == \A n \in FileNames : files[n].written

Finished ==
    \/ pc = "done" /\ BothWritten
    \/ /\ pc = "aborted"
       /\ ~(AllListed /\ ShapesOk /\ raised_in # "save_to_csv")

\* how many statements of main can still run, at most
StepsLeft ==
    CASE pc = "fetch_current" -> 6
      [] pc = "fetch_former" -> 5
      [] pc = "flatten" -> 4
      [] pc = "save_employees" -> 3
      [] pc = "fetch_departments" -> 2
      [] pc = "save_departments" -> 1
      [] pc \in {"done", "aborted"} -> 0

RecordKeys(rec) == {rec.m[k][1] : k \in 1..Len(rec.m)}

ValueAt(rec, key) == rec.m[CHOOSE k \in 1..Len(rec.m) : rec.m[k][1] = key][2]

AllKeys(data) == UNION {RecordKeys(data[i]) : i \in 1..Len(data)}

\* every record has the same keys
Uniform(data) ==
    \A i, j \in 1..Len(data) : RecordKeys(data[i]) = RecordKeys(data[j])

\* some column holds a null and, apart from nulls, nothing but integers
IntegersNextToNull(data) ==
    \E key \in AllKeys(data) :
       /\ \E i \in 1..Len(data) :
            key \in RecordKeys(data[i]) /\ ValueAt(data[i], key).t = "null"
       /\ \E i \in 1..Len(data) :
            key \in RecordKeys(data[i]) /\ ValueAt(data[i], key).t = "int"
       /\ \A i \in 1..Len(data) :
            key \in RecordKeys(data[i]) =>
               ValueAt(data[i], key).t \in {"null", "int"}

\* a record as strings; a null is the empty string
AsStrings(rec) ==
    [key \in RecordKeys(rec) |->
        LET v == ValueAt(rec, key)
        IN  CASE v.t = "str" -> v.s
              [] v.t = "int" -> ToString(v.n)
              [] v.t = "null" -> ""]

\* row i of a table read back as a mapping from column name to cell text
ParseRow(table, i) ==
    [key \in {table.header[j] : j \in 1..Len(table.header)} |->
        table.rows[i][CHOOSE j \in 1..Len(table.header) : table.header[j] = key]]

RoundTrips(table, data) ==
    /\ Len(table.rows) = Len(data)
    /\ \A i \in 1..Len(data) : ParseRow(table, i) = AsStrings(data[i])

====
